---- MODULE Spec2Model ----
(***************************************************************************)
(* The lazy model caches of TTS-Studio's backend: TTSManager                *)
(* (backend/app/services/tts_manager.py) and TranscriptionManager           *)
(* (backend/app/services/transcription_manager.py), each with its           *)
(* background cleanup thread and its shutdown protocol, as a state machine. *)
(* Request threads call _get_model / _get_pipeline; the owner thread calls  *)
(* unload_model, unload_all, unload and shutdown; the cleanup thread runs   *)
(* _cleanup_loop.  The two managers share no state, so a behaviour follows  *)
(* one of them (variable manager).  A step of the model is the code between *)
(* two points where a thread can block or be overtaken: taking _model_lock, *)
(* the loader call, Event.wait, Thread.join and the device-cache flush.     *)
(* Further specifications follow the constructor calls (SpecConstruct), a   *)
(* request into its generate_* / transcribe call (SpecUse), the routes in   *)
(* front of the TTSManager (SpecRoutes) and the fair scheduling of all      *)
(* threads (SpecStop, SpecProgress).                                        *)
(***************************************************************************)
EXTENDS Integers, Sequences, FiniteSets, TLC

\* ------------------------------------------------------------ bounds
NumThreads == 2
MaxLoads == 2
\* the clock advances MaxTicks times, by Quantum seconds each time
MaxTicks == 2
\* the largest configured timeout of the sweep over timeouts
MaxConfigTimeout == 1900
\* the clock of the single-model scenario advances ScenarioTicks times
ScenarioTicks == 4
\* threads that call the constructor of a manager
NumCtors == 2

\* ------------------------------------------------- program constants
JoinTimeout == 2
MinCleanupInterval == 30
MaxCleanupInterval == 300
IntervalDivisor == 6

MODEL_IDS ==
  <<"voice_design", "base_0.6B", "base_1.7B", "custom_0.6B", "custom_1.7B">>

\* the values app.config.MODEL_IDLE_TIMEOUT_S is drawn from
ConfigTimeouts == {-60, 0, 60}

\* time is observed at the granularity of the shortest wake interval
Quantum == MinCleanupInterval
MaxTime == MaxTicks * Quantum

\* ------------------------------------------------------------ inputs
\* the two model keys the requests of the model ask for
KeyA == MODEL_IDS[1]
KeyB == MODEL_IDS[2]
KnownKeys == {KeyA, KeyB}
\* all the keys of MODEL_IDS
ModelKeys == {MODEL_IDS[i] : i \in DOMAIN MODEL_IDS}
UnknownKey == "no_such_model"
RequestKeys == KnownKeys \cup {UnknownKey}
\* the one model of the TranscriptionManager
PipelineKey == "openai/whisper-base"
\* self._pipeline = None, self._last_used = None
NoPipeline == 0
NeverUsed == -1

\* mutant: the membership test accepts every key
IsModelId_Any(k) == TRUE

\* `model_key in MODEL_IDS`
IsModelId(k) == \E i \in DOMAIN MODEL_IDS : MODEL_IDS[i] = k

Max(a, b) == IF a >= b THEN a ELSE b
Min(a, b) == IF a <= b THEN a ELSE b

\* Python dictionaries: functions whose domain is the set of keys present
EmptyDict == [x \in {} |-> 0]
Put(d, k, v) == [x \in DOMAIN d \cup {k} |-> IF x = k THEN v ELSE d[x]]
Del(d, ks) == [x \in DOMAIN d \ ks |-> d[x]]

VARIABLES
  manager,              \* the singleton the behaviour follows: "tts" or "asr"
  MODEL_IDLE_TIMEOUT_S, \* app.config value read by __init__
  idle_timeout_s,       \* self._idle_timeout_s
  cleanup_interval_s,   \* self._cleanup_interval_s
  models,               \* self._models: key -> handle
  last_used,            \* self._last_used: key -> monotonic time
  pipeline,             \* TranscriptionManager._pipeline: handle, NoPipeline if None
  pipeline_last_used,   \* TranscriptionManager._last_used: time, NeverUsed if None
  model_lock,           \* self._model_lock is held (by the thread inside the loader)
  stop_cleanup,         \* self._stop_cleanup (threading.Event flag)
  now,                  \* time.monotonic()
  loads,                \* handles the loader has produced so far; the n-th is handle n
  waiting,              \* per key: request threads blocked on the lock in _get_model
  loading,              \* the key the lock holder is loading, "-" if none
  mt_op, mt_pc, mt_key, \* owner thread: the call it is in, position, model_key
  cl_pc, cl_wait_start, cl_now, \* cleanup thread: position, wait start, local now
  sd_join_start, sd_done, \* when join began; a shutdown() call has returned
  outcome,              \* what the call that ended in the last step returned or raised
  probes,               \* what torch reports: cuda, mps and hip
  device,               \* self._device, "-" before __init__
  dtype,                \* self._dtype; the dtype local of _get_pipeline; "-" if unset
  instance,             \* cls._instance: 0 if None, 1 for the one object
  initialized,          \* cls._instance._initialized
  ct_pc,                \* per constructing thread: its position in __new__ / __init__
  init_runs,            \* how many times the body of __init__ has run
  threads_started,      \* how many cleanup threads __init__ has started
  in_call               \* the key whose handle the followed request is using in its
                        \* generate_* / transcribe call; "-": none; "off": not followed

vars == <<manager, MODEL_IDLE_TIMEOUT_S, idle_timeout_s, cleanup_interval_s,
          models, last_used, pipeline, pipeline_last_used, model_lock,
          stop_cleanup, now, loads, waiting, loading, mt_op, mt_pc, mt_key, cl_pc,
          cl_wait_start, cl_now, sd_join_start, sd_done, outcome,
          probes, device, dtype, instance, initialized, ct_pc, init_runs,
          threads_started, in_call>>

\* what the constructor leaves behind
ctorVars == <<probes, device, dtype, instance, initialized, ct_pc, init_runs,
              threads_started>>
cfgVars == <<manager, MODEL_IDLE_TIMEOUT_S, idle_timeout_s, cleanup_interval_s,
             ctorVars>>
ttsVars == <<models, last_used>>
asrVars == <<pipeline, pipeline_last_used>>
thVars == <<waiting, loading>>
mtVars == <<mt_op, mt_pc, mt_key, sd_join_start, sd_done>>
clVars == <<cl_pc, cl_wait_start, cl_now>>

\* the call o(k) returned the handle h (0: None), or raised e
NoOutcome == [op |-> "-", key |-> "-", status |-> "-", handle |-> 0]
Returned(o, k, h) == [op |-> o, key |-> k, status |-> "returned", handle |-> h]
Raised(o, k, e) == [op |-> o, key |-> k, status |-> e, handle |-> 0]

\* ------------------------------------------------------- construction
\* self._idle_timeout_s = max(0, MODEL_IDLE_TIMEOUT_S)
IdleTimeout(cfg) == Max(0, cfg)

\* mutant: the lower limit of the interval is lost
CleanupInterval_NoFloor(idle) ==
  IF idle # 0 THEN Min(MaxCleanupInterval, idle \div IntervalDivisor) ELSE 0

\* max(30, min(300, idle // 6)) if idle else 0
CleanupInterval(idle) ==
  IF idle # 0
    THEN Max(MinCleanupInterval, Min(MaxCleanupInterval, idle \div IntervalDivisor))
    ELSE 0

\* mutant: the cleanup thread is started for a zero timeout too
ThreadStarted_NonNegative(idle) == idle >= 0

\* the cleanup thread is started only when the timeout is positive
ThreadStarted(idle) == idle > 0

\* ---------------------------------------------------- _detect_device
\* torch.cuda.is_available(); torch.backends.mps absent, present but not
\* available, or available; torch.version.hip absent, None, or a version
MpsProbes == {"absent", "unavailable", "available"}
HipProbes == {"absent", "none", "version"}
Probes == [cuda : BOOLEAN, mps : MpsProbes, hip : HipProbes]

\* TTSManager._detect_device
TTSDetectDevice(p) ==
  IF p.cuda THEN "cuda:0"
  ELSE IF p.mps = "available" THEN "mps"
  ELSE IF p.hip = "version" THEN "cuda:0"
  ELSE "cpu"

\* TranscriptionManager._detect_device
TranscriptionDetectDevice(p) ==
  IF p.cuda THEN "cuda:0"
  ELSE IF p.mps = "available" THEN "mps"
  ELSE "cpu"

DetectDevice(mgr, p) ==
  IF mgr = "tts" THEN TTSDetectDevice(p) ELSE TranscriptionDetectDevice(p)

\* self._dtype = torch.bfloat16 if self._device != "cpu" else torch.float32
TTSDtype(dev) == IF dev # "cpu" THEN "bfloat16" ELSE "float32"

\* dtype = torch.float16 if self._device.startswith("cuda") else torch.float32
PipelineDtype(dev) == IF dev = "cuda:0" THEN "float16" ELSE "float32"

\* the machine the cache behaviours run on: no accelerator
CpuOnly == [cuda |-> FALSE, mps |-> "absent", hip |-> "absent"]

\* the constructor has been called once, at the import of the module
Constructed ==
  /\ probes = CpuOnly
  /\ device = DetectDevice(manager, probes)
  /\ dtype = IF manager = "tts" THEN TTSDtype(device) ELSE "-"
  /\ instance = 1
  /\ initialized = TRUE
  /\ ct_pc = [t \in 1..NumCtors |-> "idle"]
  /\ init_runs = 1
  /\ threads_started = IF ThreadStarted(idle_timeout_s) THEN 1 ELSE 0

\* the state after __init__, for a configured timeout out of the given set
InitFrom(timeouts) ==
  /\ manager \in {"tts", "asr"}
  /\ MODEL_IDLE_TIMEOUT_S \in timeouts
  /\ idle_timeout_s = IdleTimeout(MODEL_IDLE_TIMEOUT_S)
  /\ cleanup_interval_s = CleanupInterval(idle_timeout_s)
  /\ models = EmptyDict
  /\ last_used = EmptyDict
  /\ pipeline = NoPipeline
  /\ pipeline_last_used = NeverUsed
  /\ model_lock = FALSE
  /\ stop_cleanup = FALSE
  /\ now = 0
  /\ loads = 0
  /\ waiting = [k \in ModelKeys \cup {PipelineKey} |-> 0]
  /\ loading = "-"
  /\ mt_op = "-"
  /\ mt_pc = "idle"
  /\ mt_key = "-"
  /\ cl_pc = IF ThreadStarted(idle_timeout_s) THEN "wait" ELSE "none"
  /\ cl_wait_start = 0
  /\ cl_now = 0
  /\ sd_join_start = 0
  /\ sd_done = FALSE
  /\ outcome = NoOutcome
  /\ Constructed

Init == InitFrom(ConfigTimeouts) /\ in_call = "off"

\* --------------------------------------------------------- _get_model
\* request threads that are not inside _get_model
IdleThreads ==
  NumThreads - (waiting[MODEL_IDS[1]] + waiting[MODEL_IDS[2]] + waiting[MODEL_IDS[3]]
                + waiting[MODEL_IDS[4]] + waiting[MODEL_IDS[5]] + waiting[PipelineKey])
             - (IF loading = "-" THEN 0 ELSE 1)
             - (IF in_call \in {"off", "-"} THEN 0 ELSE 1)

\* `model = self._get_model(key)` returned to the followed request, which
\* goes on to model.generate_*(...) / pipe(...) with the handle, outside
\* the lock; a request that is not followed leaves in_call as it is
EntersCall(c, k) == IF c = "-" THEN k ELSE c

\* `if model_key not in MODEL_IDS: raise ValueError`, before the lock is touched
GetModelCall(k) ==
  /\ manager = "tts"
  /\ IdleThreads > 0
  /\ IF ~IsModelId(k)
       THEN /\ outcome' = Raised("_get_model", k, "ValueError")
            /\ UNCHANGED waiting
       ELSE /\ waiting' = [waiting EXCEPT ![k] = @ + 1]
            /\ outcome' = NoOutcome
  /\ UNCHANGED <<cfgVars, in_call, asrVars, models, last_used, model_lock, stop_cleanup,
                 now, loads, loading, mtVars, clVars>>

\* mutant: the timestamp is set at the load only
TouchModel_FirstUseOnly(lu, k, t_now) ==
  IF k \in DOMAIN lu THEN lu ELSE Put(lu, k, t_now)

\* self._last_used[model_key] = time.monotonic()
TouchModel(lu, k, t_now) == Put(lu, k, t_now)

\* `if model_key not in self._models`
NeedsLoad(m, k) == k \notin DOMAIN m

\* mutant: a resident model is returned without taking the lock
GetModelLock_FastPath(k) ==
  /\ manager = "tts"
  /\ waiting[k] > 0
  /\ ~model_lock \/ ~NeedsLoad(models, k)
  /\ waiting' = [waiting EXCEPT ![k] = @ - 1]
  /\ IF NeedsLoad(models, k)
       THEN /\ loads < MaxLoads
            /\ model_lock' = TRUE
            /\ loading' = k
            /\ outcome' = NoOutcome
            /\ UNCHANGED <<last_used, in_call>>
       ELSE /\ last_used' = TouchModel(last_used, k, now)
            /\ outcome' = Returned("_get_model", k, models[k])
            /\ in_call' = EntersCall(in_call, k)
            /\ UNCHANGED <<loading, model_lock>>
  /\ UNCHANGED <<cfgVars, asrVars, models, stop_cleanup, now, loads, mtVars, clVars>>

\* with self._model_lock: resident -> touch and return; absent -> call the loader
GetModelLock(k) ==
  /\ manager = "tts"
  /\ waiting[k] > 0
  /\ ~model_lock
  /\ waiting' = [waiting EXCEPT ![k] = @ - 1]
  /\ IF NeedsLoad(models, k)
       THEN /\ loads < MaxLoads
            /\ model_lock' = TRUE
            /\ loading' = k
            /\ outcome' = NoOutcome
            /\ UNCHANGED <<last_used, in_call>>
       ELSE /\ last_used' = TouchModel(last_used, k, now)
            /\ outcome' = Returned("_get_model", k, models[k])
            /\ in_call' = EntersCall(in_call, k)
            /\ UNCHANGED <<loading, model_lock>>
  /\ UNCHANGED <<cfgVars, asrVars, models, stop_cleanup, now, loads, mtVars, clVars>>

\* mutant: the loader hands out the same handle again
StoreLoaded_Reuse(m, k, h) == Put(m, k, 1)

\* self._models[model_key] = model
StoreLoaded(m, k, h) == Put(m, k, h)

\* from_pretrained returned: store, touch, return the handle, release the lock
LoadSucceed ==
  /\ manager = "tts"
  /\ loading # "-"
  /\ loads' = loads + 1
  /\ models' = StoreLoaded(models, loading, loads')
  /\ last_used' = TouchModel(last_used, loading, now)
  /\ outcome' = Returned("_get_model", loading, models'[loading])
  /\ in_call' = EntersCall(in_call, loading)
  /\ model_lock' = FALSE
  /\ loading' = "-"
  /\ UNCHANGED <<cfgVars, asrVars, stop_cleanup, now, waiting, mtVars, clVars>>

\* mutant: the failed load leaves an empty entry behind
ModelsAfterFailedLoad_Partial(m, k) == Put(m, k, 0)

\* `except Exception: ... raise`: nothing is stored, nothing is touched
ModelsAfterFailedLoad(m, k) == m

\* mutant: the failed load leaves a timestamp behind
LastUsedAfterFailedLoad_Touched(lu, k, t_now) == Put(lu, k, t_now)

\* _touch_model is not reached when the loader raises
LastUsedAfterFailedLoad(lu, k, t_now) == lu

\* mutant: the exception leaves _get_model with the lock still held
LoadFail_KeepsLock ==
  /\ manager = "tts"
  /\ loading # "-"
  /\ models' = ModelsAfterFailedLoad(models, loading)
  /\ last_used' = LastUsedAfterFailedLoad(last_used, loading, now)
  /\ outcome' = Raised("_get_model", loading, "LoadError")
  /\ model_lock' = TRUE
  /\ loading' = "-"
  /\ UNCHANGED <<cfgVars, in_call, asrVars, stop_cleanup, now, loads, waiting, mtVars,
                 clVars>>

\* the loader raised: log and re-raise; leaving the with block frees the lock
LoadFail ==
  /\ manager = "tts"
  /\ loading # "-"
  /\ models' = ModelsAfterFailedLoad(models, loading)
  /\ last_used' = LastUsedAfterFailedLoad(last_used, loading, now)
  /\ outcome' = Raised("_get_model", loading, "LoadError")
  /\ model_lock' = FALSE
  /\ loading' = "-"
  /\ UNCHANGED <<cfgVars, in_call, asrVars, stop_cleanup, now, loads, waiting, mtVars,
                 clVars>>

\* ------------------------------------------------- _clear_device_cache
\* gc.collect() and the framework's empty_cache(): returns, or raises
ReleaseOutcomes == {"ok", "raise"}

\* ------------------------------------------------------- unload_model
UnloadModelCall(k) ==
  /\ manager = "tts"
  /\ mt_pc = "idle"
  /\ mt_op' = "unload_model"
  /\ mt_pc' = "lock"
  /\ mt_key' = k
  /\ outcome' = NoOutcome
  /\ UNCHANGED <<cfgVars, in_call, asrVars, models, last_used, model_lock, stop_cleanup,
                 now, loads, thVars, clVars, sd_join_start, sd_done>>

\* mutant: the whole mapping goes with the key
UnloadModelRemoved_All(m, k) == IF k \in DOMAIN m THEN DOMAIN m ELSE {}

\* the keys `del self._models[model_key]` removes under the lock
UnloadModelRemoved(m, k) == IF k \in DOMAIN m THEN {k} ELSE {}

\* mutant: the cache is flushed whether or not anything was unloaded
FlushAfterUnload_Always(removed) == TRUE

\* `if unloaded:` after the with block
FlushAfterUnload(removed) == removed # {}

UnloadModelLock ==
  /\ manager = "tts"
  /\ mt_op = "unload_model"
  /\ mt_pc = "lock"
  /\ ~model_lock
  /\ LET removed == UnloadModelRemoved(models, mt_key) IN
       /\ models' = Del(models, removed)
       /\ last_used' = Del(last_used, removed)
       /\ IF FlushAfterUnload(removed)
            THEN /\ mt_pc' = "clear_cache"
                 /\ outcome' = NoOutcome
                 /\ UNCHANGED <<mt_op, mt_key>>
            ELSE /\ mt_pc' = "idle"
                 /\ mt_op' = "-"
                 /\ mt_key' = "-"
                 /\ outcome' = Returned("unload_model", mt_key, 0)
  /\ UNCHANGED <<cfgVars, in_call, asrVars, model_lock, stop_cleanup, now, loads,
                 thVars, clVars,
                 sd_join_start, sd_done>>

\* --------------------------------------------------------- unload_all
UnloadAllCall ==
  /\ manager = "tts"
  /\ mt_pc = "idle"
  /\ mt_op' = "unload_all"
  /\ mt_pc' = "lock"
  /\ outcome' = NoOutcome
  /\ UNCHANGED <<cfgVars, in_call, asrVars, models, last_used, model_lock, stop_cleanup,
                 now, loads, thVars, mt_key, clVars, sd_join_start, sd_done>>

\* had_models = bool(self._models); `if had_models:` after the with block
HadModels(m) == DOMAIN m # {}

\* the with block of unload_all, called directly or as the last line of shutdown
UnloadAllLock ==
  /\ manager = "tts"
  /\ mt_op \in {"unload_all", "shutdown", "lifespan"}
  /\ mt_pc = "lock"
  /\ ~model_lock
  /\ models' = EmptyDict
  /\ last_used' = EmptyDict
  /\ IF HadModels(models)
       THEN /\ mt_pc' = "clear_cache"
            /\ outcome' = NoOutcome
            /\ UNCHANGED <<mt_op, sd_done>>
       ELSE /\ mt_pc' = "idle"
            /\ mt_op' = "-"
            /\ sd_done' = (sd_done \/ mt_op = "shutdown")
            /\ outcome' = Returned(mt_op, mt_key, 0)
  /\ UNCHANGED <<cfgVars, in_call, asrVars, model_lock, stop_cleanup, now, loads,
                 thVars, mt_key,
                 clVars, sd_join_start>>

\* the flush after the with block; the caller returns, or the exception leaves it
ClearDeviceCache(o) ==
  /\ manager = "tts"
  /\ mt_pc = "clear_cache"
  /\ mt_pc' = "idle"
  /\ mt_op' = "-"
  /\ mt_key' = "-"
  /\ sd_done' = (sd_done \/ mt_op = "shutdown")
  /\ outcome' = IF o = "raise" THEN Raised(mt_op, mt_key, "ReleaseError")
                               ELSE Returned(mt_op, mt_key, 0)
  /\ UNCHANGED <<cfgVars, in_call, asrVars, models, last_used, model_lock, stop_cleanup,
                 now, loads, thVars, clVars, sd_join_start>>

\* ------------------------------------------------------ _cleanup_loop
\* mutant: the comparison with the cutoff is strict
StaleKey_Strict(lu, k, cutoff) == lu[k] < cutoff

\* `last_used <= cutoff`
StaleKey(lu, k, cutoff) == lu[k] <= cutoff

\* mutant: the cutoff is the sampled time itself
UnloadIdleModelsLocked_NoTimeout(m, lu, idle, t_now) ==
  IF idle <= 0 \/ DOMAIN m = {}
    THEN {}
    ELSE LET cutoff == t_now IN
         {k \in DOMAIN lu : k \in DOMAIN m /\ StaleKey(lu, k, cutoff)}

\* _unload_idle_models_locked(now): the stale keys
UnloadIdleModelsLocked(m, lu, idle, t_now) ==
  IF idle <= 0 \/ DOMAIN m = {}
    THEN {}
    ELSE LET cutoff == t_now - idle IN
         {k \in DOMAIN lu : k \in DOMAIN m /\ StaleKey(lu, k, cutoff)}

\* Event.wait(interval) timed out with the flag still clear
WaitTimedOut(start, t_now) == t_now >= start + cleanup_interval_s

\* wait() returned False; now = time.monotonic(); next the lock is requested
CleanupWake ==
  /\ manager = "tts"
  /\ cl_pc = "wait"
  /\ ~stop_cleanup
  /\ WaitTimedOut(cl_wait_start, now)
  /\ cl_pc' = "lock"
  /\ cl_wait_start' = 0
  /\ cl_now' = now
  /\ outcome' = NoOutcome
  /\ UNCHANGED <<cfgVars, in_call, asrVars, models, last_used, model_lock, stop_cleanup,
                 now, loads, thVars, mtVars>>

\* mutant: a plain sleep, the event is looked at when the interval is over
CleanupStopped_AfterSleep ==
  /\ manager = "tts"
  /\ cl_pc = "wait"
  /\ stop_cleanup
  /\ WaitTimedOut(cl_wait_start, now)
  /\ cl_pc' = "done"
  /\ cl_wait_start' = 0
  /\ outcome' = NoOutcome
  /\ UNCHANGED <<cfgVars, in_call, asrVars, models, last_used, model_lock, stop_cleanup,
                 now, loads, thVars, mtVars, cl_now>>

\* Event.wait returned True: the loop ends and the thread terminates
CleanupStopped ==
  /\ manager = "tts"
  /\ cl_pc = "wait"
  /\ stop_cleanup
  /\ cl_pc' = "done"
  /\ cl_wait_start' = 0
  /\ outcome' = NoOutcome
  /\ UNCHANGED <<cfgVars, in_call, asrVars, models, last_used, model_lock, stop_cleanup,
                 now, loads, thVars, mtVars, cl_now>>

\* with self._model_lock: unloaded = self._unload_idle_models_locked(now)
CleanupPass ==
  /\ manager = "tts"
  /\ cl_pc = "lock"
  /\ ~model_lock
  /\ LET stale == UnloadIdleModelsLocked(models, last_used, idle_timeout_s, cl_now) IN
       /\ models' = Del(models, stale)
       /\ last_used' = Del(last_used, stale)
       /\ IF FlushAfterUnload(stale)
            THEN cl_pc' = "clear_cache" /\ cl_wait_start' = 0
            ELSE cl_pc' = "wait" /\ cl_wait_start' = now
  /\ cl_now' = 0
  /\ outcome' = NoOutcome
  /\ UNCHANGED <<cfgVars, in_call, asrVars, model_lock, stop_cleanup, now, loads,
                 thVars, mtVars>>

\* `if unloaded: self._clear_device_cache()`; an exception ends the thread
CleanupClear(o) ==
  /\ manager = "tts"
  /\ cl_pc = "clear_cache"
  /\ IF o = "raise"
       THEN cl_pc' = "crashed" /\ cl_wait_start' = 0
       ELSE cl_pc' = "wait" /\ cl_wait_start' = now
  /\ outcome' = NoOutcome
  /\ UNCHANGED <<cfgVars, in_call, asrVars, models, last_used, model_lock, stop_cleanup,
                 now, loads, thVars, mtVars, cl_now>>

\* self._cleanup_thread and self._cleanup_thread.is_alive()
CleanupAlive == cl_pc \notin {"none", "done", "crashed"}

\* ----------------------------------------------------------- shutdown
\* self._stop_cleanup.set(); join the cleanup thread if it is alive
ShutdownCall ==
  /\ manager = "tts"
  /\ mt_pc = "idle"
  /\ mt_op' = "shutdown"
  /\ stop_cleanup' = TRUE
  /\ IF CleanupAlive
       THEN mt_pc' = "join" /\ sd_join_start' = now
       ELSE mt_pc' = "lock" /\ sd_join_start' = 0
  /\ outcome' = NoOutcome
  /\ UNCHANGED <<cfgVars, in_call, asrVars, models, last_used, model_lock, now, loads,
                 thVars, mt_key, clVars, sd_done>>

\* join(timeout=2.0) returns: the thread ended, or the timeout ran out
JoinReturns(start, t_now) == ~CleanupAlive \/ t_now >= start + JoinTimeout

\* shutdown goes on to self.unload_all()
ShutdownJoin ==
  /\ manager = "tts"
  /\ mt_pc = "join"
  /\ JoinReturns(sd_join_start, now)
  /\ mt_pc' = "lock"
  /\ sd_join_start' = 0
  /\ outcome' = NoOutcome
  /\ UNCHANGED <<cfgVars, in_call, asrVars, models, last_used, model_lock, stop_cleanup,
                 now, loads, thVars, mt_op, mt_key, clVars, sd_done>>

\* ============================================== TranscriptionManager
\* ------------------------------------------------------ _get_pipeline
\* a request thread enters _get_pipeline and goes for the lock
GetPipelineCall ==
  /\ manager = "asr"
  /\ IdleThreads > 0
  /\ waiting' = [waiting EXCEPT ![PipelineKey] = @ + 1]
  /\ outcome' = NoOutcome
  /\ UNCHANGED <<cfgVars, in_call, ttsVars, asrVars, model_lock, stop_cleanup, now,
                 loads, loading, mtVars, clVars>>

\* `if self._pipeline is None`
PipelineNeedsLoad(p) == p = NoPipeline

\* a waiting thread takes the lock: it starts the load and keeps the lock, or
\* sets _last_used and returns the pipeline
GetPipelineLock ==
  /\ manager = "asr"
  /\ waiting[PipelineKey] > 0
  /\ ~model_lock
  /\ waiting' = [waiting EXCEPT ![PipelineKey] = @ - 1]
  /\ IF PipelineNeedsLoad(pipeline)
       THEN /\ loads < MaxLoads
            /\ model_lock' = TRUE
            /\ loading' = PipelineKey
            /\ outcome' = NoOutcome
            /\ UNCHANGED <<asrVars, in_call>>
       ELSE /\ pipeline_last_used' = now
            /\ outcome' = Returned("_get_pipeline", PipelineKey, pipeline)
            /\ in_call' = EntersCall(in_call, PipelineKey)
            /\ UNCHANGED <<pipeline, loading, model_lock>>
  /\ UNCHANGED <<cfgVars, ttsVars, stop_cleanup, now, loads, mtVars, clVars>>

\* pipeline(...) returned: the handle is stored, touched and returned
PipelineLoadSucceed ==
  /\ manager = "asr"
  /\ loading = PipelineKey
  /\ loads' = loads + 1
  /\ pipeline' = loads'
  /\ pipeline_last_used' = now
  /\ outcome' = Returned("_get_pipeline", PipelineKey, pipeline')
  /\ in_call' = EntersCall(in_call, PipelineKey)
  /\ model_lock' = FALSE
  /\ loading' = "-"
  /\ UNCHANGED <<cfgVars, ttsVars, stop_cleanup, now, waiting, mtVars, clVars>>

\* `except Exception: ... raise`: _pipeline stays None, _last_used is not set
PipelineAfterFailedLoad(p) == p

\* pipeline(...) raised
PipelineLoadFail ==
  /\ manager = "asr"
  /\ loading = PipelineKey
  /\ pipeline' = PipelineAfterFailedLoad(pipeline)
  /\ pipeline_last_used' = pipeline_last_used
  /\ outcome' = Raised("_get_pipeline", PipelineKey, "LoadError")
  /\ model_lock' = FALSE
  /\ loading' = "-"
  /\ UNCHANGED <<cfgVars, in_call, ttsVars, stop_cleanup, now, loads, waiting, mtVars,
                 clVars>>

\* ------------------------------------------------------------- unload
\* the owner thread enters unload()
UnloadCall ==
  /\ manager = "asr"
  /\ mt_pc = "idle"
  /\ mt_op' = "unload"
  /\ mt_pc' = "lock"
  /\ outcome' = NoOutcome
  /\ UNCHANGED <<cfgVars, in_call, ttsVars, asrVars, model_lock, stop_cleanup, now,
                 loads, thVars, mt_key, clVars, sd_join_start, sd_done>>

\* the value _unload_locked returns
UnloadLocked(p) == p # NoPipeline

\* unload (called directly or by shutdown) runs _unload_locked under the lock
UnloadLock ==
  /\ manager = "asr"
  /\ mt_op \in {"unload", "shutdown"}
  /\ mt_pc = "lock"
  /\ ~model_lock
  /\ IF UnloadLocked(pipeline)
       THEN /\ pipeline' = NoPipeline
            /\ pipeline_last_used' = NeverUsed
            /\ mt_pc' = "clear_cache"
            /\ outcome' = NoOutcome
            /\ UNCHANGED <<mt_op, sd_done>>
       ELSE /\ mt_pc' = "idle"
            /\ mt_op' = "-"
            /\ sd_done' = (sd_done \/ mt_op = "shutdown")
            /\ outcome' = Returned(mt_op, mt_key, 0)
            /\ UNCHANGED asrVars
  /\ UNCHANGED <<cfgVars, in_call, ttsVars, model_lock, stop_cleanup, now, loads,
                 thVars, mt_key, clVars, sd_join_start>>

\* unload's _clear_device_cache() returns or raises, outside the lock
TranscriptionClearDeviceCache(o) ==
  /\ manager = "asr"
  /\ mt_pc = "clear_cache"
  /\ mt_pc' = "idle"
  /\ mt_op' = "-"
  /\ sd_done' = (sd_done \/ mt_op = "shutdown")
  /\ outcome' = IF o = "raise" THEN Raised(mt_op, mt_key, "ReleaseError")
                               ELSE Returned(mt_op, mt_key, 0)
  /\ UNCHANGED <<cfgVars, in_call, ttsVars, asrVars, model_lock, stop_cleanup, now,
                 loads, thVars, mt_key, clVars, sd_join_start>>

\* ------------------------------------------------------ _cleanup_loop
\* wait(interval) timed out: the loop body samples the time
TranscriptionCleanupWake ==
  /\ manager = "asr"
  /\ cl_pc = "wait"
  /\ ~stop_cleanup
  /\ WaitTimedOut(cl_wait_start, now)
  /\ cl_pc' = "lock"
  /\ cl_wait_start' = 0
  /\ cl_now' = now
  /\ outcome' = NoOutcome
  /\ UNCHANGED <<cfgVars, in_call, ttsVars, asrVars, model_lock, stop_cleanup, now,
                 loads, thVars, mtVars>>

\* wait() returned True: the loop ends
TranscriptionCleanupStopped ==
  /\ manager = "asr"
  /\ cl_pc = "wait"
  /\ stop_cleanup
  /\ cl_pc' = "done"
  /\ cl_wait_start' = 0
  /\ outcome' = NoOutcome
  /\ UNCHANGED <<cfgVars, in_call, ttsVars, asrVars, model_lock, stop_cleanup, now,
                 loads, thVars, mtVars, cl_now>>

\* mutant: the comparison with the timeout is strict
PipelineIdle_Strict(p, lu, idle, t_now) ==
  p # NoPipeline /\ lu # NeverUsed /\ (t_now - lu) > idle

\* the loop's test under the lock
PipelineIdle(p, lu, idle, t_now) ==
  p # NoPipeline /\ lu # NeverUsed /\ (t_now - lu) >= idle

\* the pass under the lock: the idle test, then _unload_locked
TranscriptionCleanupPass ==
  /\ manager = "asr"
  /\ cl_pc = "lock"
  /\ ~model_lock
  /\ LET should_unload ==
           /\ PipelineIdle(pipeline, pipeline_last_used, idle_timeout_s, cl_now)
           /\ UnloadLocked(pipeline)
     IN IF should_unload
          THEN /\ pipeline' = NoPipeline
               /\ pipeline_last_used' = NeverUsed
               /\ cl_pc' = "clear_cache"
               /\ cl_wait_start' = 0
          ELSE /\ cl_pc' = "wait"
               /\ cl_wait_start' = now
               /\ UNCHANGED asrVars
  /\ cl_now' = 0
  /\ outcome' = NoOutcome
  /\ UNCHANGED <<cfgVars, in_call, ttsVars, model_lock, stop_cleanup, now, loads,
                 thVars, mtVars>>

\* the loop's _clear_device_cache() returns, or raises and ends the thread
TranscriptionCleanupClear(o) ==
  /\ manager = "asr"
  /\ cl_pc = "clear_cache"
  /\ IF o = "raise"
       THEN cl_pc' = "crashed" /\ cl_wait_start' = 0
       ELSE cl_pc' = "wait" /\ cl_wait_start' = now
  /\ outcome' = NoOutcome
  /\ UNCHANGED <<cfgVars, in_call, ttsVars, asrVars, model_lock, stop_cleanup, now,
                 loads, thVars, mtVars, cl_now>>

\* ----------------------------------------------------------- shutdown
\* shutdown sets the stop event and joins the cleanup thread if it is alive
TranscriptionShutdownCall ==
  /\ manager = "asr"
  /\ mt_pc = "idle"
  /\ mt_op' = "shutdown"
  /\ stop_cleanup' = TRUE
  /\ IF CleanupAlive
       THEN mt_pc' = "join" /\ sd_join_start' = now
       ELSE mt_pc' = "lock" /\ sd_join_start' = 0
  /\ outcome' = NoOutcome
  /\ UNCHANGED <<cfgVars, in_call, ttsVars, asrVars, model_lock, now, loads, thVars,
                 mt_key, clVars, sd_done>>

\* join(timeout=2.0) returns and shutdown goes on to self.unload()
TranscriptionShutdownJoin ==
  /\ manager = "asr"
  /\ mt_pc = "join"
  /\ JoinReturns(sd_join_start, now)
  /\ mt_pc' = "lock"
  /\ sd_join_start' = 0
  /\ outcome' = NoOutcome
  /\ UNCHANGED <<cfgVars, in_call, ttsVars, asrVars, model_lock, stop_cleanup, now,
                 loads, thVars, mt_op, mt_key, clVars, sd_done>>

\* ------------------------------------------------------------ main.py
\* len of `list(tts_manager._models.keys())`
LoadedModels(m) == Cardinality(DOMAIN m)

\* GET /api/health: the handler reads tts_manager._models as it is, whatever
\* the state of _model_lock, and returns the keys
HealthCheck ==
  /\ manager = "tts"
  /\ outcome' = Returned("health_check", "-", LoadedModels(models))
  /\ UNCHANGED <<cfgVars, in_call, ttsVars, asrVars, model_lock, stop_cleanup, now,
                 loads, thVars, mtVars, clVars>>

\* lifespan, after the yield: `tts_manager.unload_all()` and nothing else;
\* the transcription manager is not mentioned, so in a behaviour of that
\* manager the teardown returns with its state as it was
LifespanTeardown ==
  /\ mt_pc = "idle"
  /\ IF manager = "tts"
       THEN /\ mt_op' = "lifespan"
            /\ mt_pc' = "lock"
            /\ outcome' = NoOutcome
       ELSE /\ outcome' = Returned("lifespan", "-", 0)
            /\ UNCHANGED <<mt_op, mt_pc>>
  /\ UNCHANGED <<cfgVars, in_call, ttsVars, asrVars, model_lock, stop_cleanup, now,
                 loads, thVars, mt_key, clVars, sd_join_start, sd_done>>

\* ------------------------------------------------------ domain calls
\* model.generate_voice_design / generate_voice_clone / generate_custom_voice
\* or pipe(...) returns to the followed request; the lock is not involved
DomainCallEnds ==
  /\ in_call \notin {"off", "-"}
  /\ in_call' = "-"
  /\ outcome' = Returned(IF manager = "tts" THEN "generate" ELSE "transcribe",
                         in_call, 0)
  /\ UNCHANGED <<cfgVars, ttsVars, asrVars, model_lock, stop_cleanup, now, loads,
                 thVars, mtVars, clVars>>

\* -------------------------------------------------------------- clock
\* A thread woken by the stop event, a join on a thread that has ended, and
\* the cleanup or owner thread at a free lock go on before a whole quantum
\* goes by: time passes in the loader, in _clear_device_cache, in wait() and
\* between calls.
Urgent ==
  \/ cl_pc = "wait" /\ stop_cleanup
  \/ mt_pc = "join" /\ ~CleanupAlive
  \/ cl_pc = "lock" /\ ~model_lock
  \/ mt_pc = "lock" /\ ~model_lock

\* time.monotonic() advances, up to the given time
TickUpTo(limit) ==
  /\ now + Quantum <= limit
  /\ ~Urgent
  /\ now' = now + Quantum
  /\ outcome' = NoOutcome
  /\ UNCHANGED <<cfgVars, in_call, ttsVars, asrVars, model_lock, stop_cleanup, loads,
                 thVars, mtVars, clVars>>

Tick == TickUpTo(MaxTime)

Next ==
  \/ \E k \in RequestKeys : GetModelCall(k)
  \/ \E k \in KnownKeys : GetModelLock(k)
  \/ LoadSucceed
  \/ LoadFail
  \/ \E k \in KnownKeys : UnloadModelCall(k)
  \/ UnloadModelLock
  \/ UnloadAllCall
  \/ UnloadAllLock
  \/ \E o \in ReleaseOutcomes : ClearDeviceCache(o)
  \/ ShutdownCall
  \/ ShutdownJoin
  \/ CleanupWake
  \/ CleanupStopped
  \/ CleanupPass
  \/ \E o \in ReleaseOutcomes : CleanupClear(o)
  \/ GetPipelineCall
  \/ GetPipelineLock
  \/ PipelineLoadSucceed
  \/ PipelineLoadFail
  \/ UnloadCall
  \/ UnloadLock
  \/ \E o \in ReleaseOutcomes : TranscriptionClearDeviceCache(o)
  \/ TranscriptionShutdownCall
  \/ TranscriptionShutdownJoin
  \/ TranscriptionCleanupWake
  \/ TranscriptionCleanupStopped
  \/ TranscriptionCleanupPass
  \/ \E o \in ReleaseOutcomes : TranscriptionCleanupClear(o)
  \/ HealthCheck
  \/ LifespanTeardown
  \/ Tick

Spec == Init /\ [][Next]_vars

\* --------------------------------------- a request followed into its call
\* As Spec, with one request at a time followed from the return of
\* _get_model / _get_pipeline to the end of its generate_* / transcribe call.
InitUse == InitFrom(ConfigTimeouts) /\ in_call = "-"

NextUse == Next \/ DomainCallEnds

SpecUse == InitUse /\ [][NextUse]_vars

\* ------------------------------------------- the scheduler on its own
\* every configured timeout from -MinCleanupInterval to MaxConfigTimeout
ConfigRange == (0 - MinCleanupInterval)..MaxConfigTimeout

InitConfig == InitFrom(ConfigRange) /\ in_call = "off"

\* the cleanup thread of either manager, with no request and no owner call
NextConfig ==
  \/ CleanupWake
  \/ CleanupPass
  \/ TranscriptionCleanupWake
  \/ TranscriptionCleanupPass
  \/ Tick

SpecConfig == InitConfig /\ [][NextConfig]_vars

\* ------------------------------------------- one model, used and left idle
\* a timeout of 60 s, which gives the wake interval 30 s
ScenarioTimeout == 2 * MinCleanupInterval
ScenarioEnd == ScenarioTicks * Quantum

InitScenario == InitFrom({ScenarioTimeout}) /\ manager = "tts" /\ in_call = "off"

\* the requests for the model: a first one at t = 0, a second one at t = 30
\* for the model loaded at 0, and one after the model has been unloaded
ScenarioRequest ==
  /\ \/ now = 0 /\ loads = 0
     \/ now = Quantum /\ KeyA \in DOMAIN last_used /\ last_used[KeyA] = 0
     \/ now > ScenarioTimeout /\ loads = 1 /\ KeyA \notin DOMAIN models
  /\ waiting[KeyA] = 0
  /\ loading = "-"
  /\ GetModelCall(KeyA)

\* a request is served at the time it is made: the clock stands still while
\* it is on its way to the lock, and advances during a load
ScenarioTick == waiting[KeyA] = 0 /\ TickUpTo(ScenarioEnd)

NextScenario ==
  \/ ScenarioRequest
  \/ GetModelLock(KeyA)
  \/ LoadSucceed
  \/ CleanupWake
  \/ CleanupPass
  \/ \E o \in ReleaseOutcomes : CleanupClear(o)
  \/ ScenarioTick

SpecScenario == InitScenario /\ [][NextScenario]_vars


\* ====================================================================
\* Properties
\* ====================================================================
AllKeys == KnownKeys \cup {PipelineKey}

\* k has an entry in the manager's cache
Resident(k) == IF k = PipelineKey THEN pipeline # NoPipeline ELSE k \in DOMAIN models

\* k has a last-use timestamp
Stamped(k) ==
  IF k = PipelineKey THEN pipeline_last_used # NeverUsed ELSE k \in DOMAIN last_used

Handle(k) == IF k = PipelineKey THEN pipeline ELSE models[k]
LastUsed(k) == IF k = PipelineKey THEN pipeline_last_used ELSE last_used[k]
NoneResident == \A k \in AllKeys : ~Resident(k)

\* this step is a _get_model / _get_pipeline call ending with the given status
GetEnds(status) ==
  outcome'.op \in {"_get_model", "_get_pipeline"} /\ outcome'.status = status

\* this step starts the loader for k
StartsLoad(k) == loading # k /\ loading' = k

\* in this step a caller waiting for k gets the lock
TakesLock(k) == waiting'[k] < waiting[k]

\* this step removes k from the cache
Removes(k) == Resident(k) /\ ~Resident(k)'

\* --------------------------------------------------------------- C1
\* C1: single-flight.  N concurrent calls for a key that is not resident
\* invoke the loader once, and when that load fails all of them receive the
\* failure: a caller that was waiting for K while the load of K failed never
\* invokes the loader itself, i.e. right after a failed load of K no caller
\* still waiting for K starts the loader.
C1_SingleFlightOnFailure ==
  [][~(/\ outcome.status = "LoadError"
       /\ waiting[outcome.key] > 0
       /\ StartsLoad(outcome.key))]_vars

\* --------------------------------------------------------------- C2
\* C2: a load that fails is raised to its caller and leaves the mapping and
\* the timestamps exactly as they were, with K in neither and the lock free;
\* the next caller that finds K absent invokes the loader again, and a load
\* that succeeds stores and returns a real handle, leaving the other entries
\* alone.
C2_Step ==
  /\ GetEnds("LoadError") =>
       /\ loading # "-" /\ outcome'.key = loading
       /\ UNCHANGED <<ttsVars, asrVars>>
       /\ ~Resident(loading) /\ ~Stamped(loading)
       /\ ~model_lock'
  /\ \A k \in AllKeys : (TakesLock(k) /\ ~Resident(k)) => StartsLoad(k)
  /\ (loading # "-" /\ GetEnds("returned")) =>
       /\ outcome'.key = loading
       /\ \E k \in AllKeys : k = loading /\ Handle(k)' = outcome'.handle
       /\ outcome'.handle >= 1
       /\ \A k \in DOMAIN models : models'[k] = models[k]

C2_NoPartialEntry ==
  /\ \A k \in AllKeys : Resident(k) => Handle(k) >= 1
  /\ \A k \in AllKeys : Resident(k) <=> Stamped(k)

C2_FailedLoadDoesNotPoison == []C2_NoPartialEntry /\ [][C2_Step]_vars

\* a load of one key has just failed while the other key is resident
C2_Witness ==
  /\ outcome.op = "_get_model"
  /\ outcome.status = "LoadError"
  /\ DOMAIN models = KnownKeys \ {outcome.key}
  /\ DOMAIN last_used = DOMAIN models

\* --------------------------------------------------------------- C3
\* C3: _get_model with a key outside MODEL_IDS raises ValueError and changes
\* nothing (mapping, timestamps, lock, waiters, loader); the call does not need
\* the lock, so an idle thread can make it and fail whatever the lock's state.
UnknownKeyFails ==
  GetModelCall(UnknownKey) /\ outcome' = Raised("_get_model", UnknownKey, "ValueError")

C3_Step ==
  outcome'.status = "ValueError" =>
    /\ outcome'.op = "_get_model"
    /\ ~IsModelId(outcome'.key)
    /\ UNCHANGED <<cfgVars, in_call, ttsVars, asrVars, model_lock, stop_cleanup, now,
                   loads, thVars, mtVars, clVars>>

C3_AlwaysFails ==
  (manager = "tts" /\ IdleThreads > 0) => ENABLED UnknownKeyFails

C3_UnknownKey == []C3_AlwaysFails /\ [][C3_Step]_vars

\* the call has just failed while another thread is inside the loader,
\* holding the lock
C3_Witness ==
  /\ outcome = Raised("_get_model", UnknownKey, "ValueError")
  /\ model_lock
  /\ loading # "-"

\* --------------------------------------------------------------- C4
\* this step is the cleanup thread's pass over the cache, under the lock
IdlePass == cl_pc = "lock" /\ cl_pc' # "lock"

\* C4: with an idle timeout T > 0 the cleanup thread runs, and its pass
\* removes from the mapping and from the timestamps every resident entry with
\* last_used <= now - T, now being the time sampled at that wake (the
\* comparison is inclusive); a later call for the key finds it absent and
\* invokes the loader, which produces a handle that was never handed out before.
C4_Step ==
  /\ IdlePass =>
       /\ idle_timeout_s > 0
       /\ ~model_lock
       /\ \A k \in AllKeys :
            (Resident(k) /\ LastUsed(k) <= cl_now - idle_timeout_s) =>
               ~Resident(k)' /\ ~Stamped(k)'
  /\ \A k \in AllKeys :
       (TakesLock(k) /\ ~Resident(k)) => loading' = k /\ model_lock'
  /\ (loading # "-" /\ GetEnds("returned")) =>
       /\ outcome'.handle = loads + 1
       /\ \A k \in AllKeys : Resident(k) => Handle(k) < outcome'.handle

C4_SchedulerRuns == idle_timeout_s > 0 => cl_pc # "none"

C4_IdleEviction == []C4_SchedulerRuns /\ [][C4_Step]_vars

\* the pass has just removed an entry that was used exactly T before the wake
C4_Witness ==
  /\ cl_pc = "clear_cache"
  /\ idle_timeout_s > 0
  /\ now = idle_timeout_s
  /\ NoneResident
  /\ loads >= 1

\* --------------------------------------------------------------- C5
\* C5: every successful _get_model(K) sets K's timestamp to the current time,
\* under the lock, and a pass removes K only if at least T has passed since
\* that timestamp; an entry touched less than T before the sampled time
\* (also one touched after the sample, while the pass was waiting for the
\* lock) survives the pass.  Hence calls that succeed less than T apart keep
\* K resident.
C5_Step ==
  /\ GetEnds("returned") =>
       /\ \E k \in AllKeys : k = outcome'.key /\ Stamped(k)' /\ LastUsed(k)' = now
       /\ now' = now
  /\ IdlePass =>
       \A k \in AllKeys :
         /\ Removes(k) => now - LastUsed(k) >= idle_timeout_s
         /\ (Resident(k) /\ LastUsed(k) > cl_now - idle_timeout_s) =>
               /\ Resident(k)' /\ Handle(k)' = Handle(k)
               /\ Stamped(k)' /\ LastUsed(k)' = LastUsed(k)

C5_TimestampsInPast ==
  /\ \A k \in AllKeys : Stamped(k) => LastUsed(k) <= now
  /\ cl_now <= now

C5_TouchResetsClock == []C5_TimestampsInPast /\ [][C5_Step]_vars

\* the cleanup thread sampled the time, then waited for the lock while a
\* call touched a key: the pass is about to run with a timestamp newer
\* than its sample
C5_Witness ==
  /\ manager = "tts"
  /\ cl_pc = "lock"
  /\ ~model_lock
  /\ \E k \in DOMAIN models : k \in DOMAIN last_used /\ last_used[k] > cl_now

\* --------------------------------------------------------------- C6
\* C6: a configured timeout <= 0 gives idle_timeout_s = 0 (negative values are
\* clamped), no cleanup interval and no cleanup thread; the idle test then
\* selects nothing whatever the timestamps, and an entry leaves the cache
\* only in the locked step of unload_model, unload, unload_all (called
\* directly or by the lifespan's teardown) or shutdown.
C6_Disabled ==
  MODEL_IDLE_TIMEOUT_S <= 0 =>
    /\ idle_timeout_s = 0
    /\ cleanup_interval_s = 0
    /\ cl_pc = "none"
    /\ UnloadIdleModelsLocked(models, last_used, idle_timeout_s, now) = {}

C6_Step ==
  (MODEL_IDLE_TIMEOUT_S <= 0 /\ \E k \in AllKeys : Removes(k)) =>
    /\ mt_pc = "lock"
    /\ mt_op \in {"unload_model", "unload", "unload_all", "shutdown", "lifespan"}
    /\ mt_op = "unload_model" => DOMAIN models' = DOMAIN models \ {mt_key}

C6_DisabledEviction == []C6_Disabled /\ [][C6_Step]_vars

\* a negative timeout is configured and an entry is still resident long after
\* its last use
C6_Witness ==
  /\ MODEL_IDLE_TIMEOUT_S < 0
  /\ \E k \in AllKeys :
       Resident(k) /\ now - LastUsed(k) >= 2 * MinCleanupInterval

\* --------------------------------------------------------------- C7
\* C7: shutdown is terminal.  When shutdown() returns, no key is resident and
\* the cleanup thread has terminated, and the unload_all / unload inside
\* shutdown takes the lock only after the cleanup thread has stopped, whatever
\* the calls in flight do (a cold load may hold the lock for longer than the
\* join timeout).
C7_ShutdownTerminal ==
  /\ outcome.op = "shutdown" => NoneResident /\ ~CleanupAlive
  /\ (mt_op = "shutdown" /\ mt_pc = "lock") => ~CleanupAlive

\* --------------------------------------------------------------- C8
\* C8: shutdown is idempotent.  In a shutdown() called after a shutdown() has
\* returned, the locked step of unload_all / unload changes neither the
\* mapping nor the timestamps, does not go on to _clear_device_cache, and the
\* call returns without an error.
C8_Step ==
  (sd_done /\ mt_op = "shutdown" /\ mt_pc = "lock" /\ mt_pc' # "lock") =>
    /\ UNCHANGED <<ttsVars, asrVars>>
    /\ mt_pc' = "idle"
    /\ outcome' = Returned("shutdown", "-", 0)

C8_ShutdownIdempotent == [][C8_Step]_vars

\* --------------------------------------------------------------- C9
\* C9: no resurrection.  Once a shutdown() has returned, the cache is empty
\* and stays empty: no later operation inserts an entry.
C9_NoResurrection == sd_done => NoneResident

\* --------------------------------------------------------------- C10
\* this step takes a thread to its _clear_device_cache call
OwnerReachesClear == mt_pc # "clear_cache" /\ mt_pc' = "clear_cache"
CleanupReachesClear == cl_pc # "clear_cache" /\ cl_pc' = "clear_cache"

\* this step removes at least one entry and inserts none
RemovesSome ==
  /\ \E k \in AllKeys : Removes(k)
  /\ \A k \in AllKeys : Resident(k)' => Resident(k)

\* this step leaves the cache as it is
CacheUnchanged == UNCHANGED <<ttsVars, asrVars>>

\* C10: release after removal.  A thread reaches _clear_device_cache only
\* from the locked step of its own operation, and only if that step removed at
\* least one entry; by then it has left the lock (between steps the lock is
\* held by a loader only).  The locked step of unload_model, unload,
\* unload_all, shutdown or an idle pass that removes nothing ends the
\* operation without a release, and one removal step is followed by one
\* release only.
C10_Step ==
  /\ OwnerReachesClear =>
       mt_pc = "lock" /\ ~model_lock /\ ~model_lock' /\ RemovesSome
  /\ CleanupReachesClear =>
       cl_pc = "lock" /\ ~model_lock /\ ~model_lock' /\ RemovesSome
  /\ (mt_pc = "lock" /\ mt_pc' # "lock" /\ ~RemovesSome) =>
       mt_pc' = "idle" /\ outcome'.status = "returned" /\ CacheUnchanged
  /\ (cl_pc = "lock" /\ cl_pc' # "lock" /\ ~RemovesSome) =>
       cl_pc' = "wait" /\ CacheUnchanged
  /\ (mt_pc = "clear_cache" /\ mt_pc' # mt_pc) => mt_pc' = "idle" /\ CacheUnchanged
  /\ (cl_pc = "clear_cache" /\ cl_pc' # cl_pc) =>
       cl_pc' \in {"wait", "crashed"} /\ CacheUnchanged

C10_ReleaseOutsideLock == model_lock <=> loading # "-"

C10_ReleaseAfterRemoval == []C10_ReleaseOutsideLock /\ [][C10_Step]_vars

\* the owner thread and the cleanup thread have each removed an entry and
\* are both about to release, outside the lock
C10_Witness ==
  /\ mt_pc = "clear_cache"
  /\ cl_pc = "clear_cache"
  /\ ~model_lock
  /\ NoneResident
  /\ loads = 2

\* --------------------------------------------------------------- C11
\* C11: release failures are swallowed.  An exception of
\* _clear_device_cache never leaves the evicting call (unload_model, unload,
\* unload_all, shutdown), and it never ends the cleanup thread, which goes
\* back to its wait and performs later wakes.
C11_ReleaseFailuresSwallowed ==
  /\ outcome.status # "ReleaseError"
  /\ cl_pc # "crashed"

\* --------------------------------------------------------------- C12
\* the truth value of a returned value: None (0) is false
Truthy(v) == v # 0

\* C12: unload_model(key) / unload() removes the entry under the lock if it
\* is present and returns a value that is true exactly when an entry was
\* removed, i.e. exactly when the call went through _clear_device_cache, which
\* it reaches after the locked step and outside the lock.
C12_Step ==
  /\ (mt_op \in {"unload_model", "unload"} /\ mt_pc = "lock" /\ mt_pc' # "lock") =>
       /\ ~model_lock /\ ~model_lock'
       /\ mt_pc' = "clear_cache" <=> \E k \in AllKeys : Removes(k)
       /\ mt_op = "unload_model" =>
            /\ mt_key \notin DOMAIN models' /\ mt_key \notin DOMAIN last_used'
            /\ \A k \in DOMAIN models \ {mt_key} :
                 k \in DOMAIN models' /\ models'[k] = models[k]
  /\ (mt_op \in {"unload_model", "unload"} /\ outcome'.op = mt_op
        /\ outcome'.status = "returned") =>
       (Truthy(outcome'.handle) <=> mt_pc = "clear_cache")

C12_EvictReturnsBool == [][C12_Step]_vars

\* --------------------------------------------------------------- C13
\* C13: unload_all clears the whole mapping and all timestamps in one step
\* under the lock, so that no other thread sees or changes the mapping in
\* between, and returns the list of the keys it evicted: a call that evicted
\* at least one key (and so went through _clear_device_cache) returns a
\* non-empty list, which is a true value.
C13_Step ==
  /\ (manager = "tts" /\ mt_op \in {"unload_all", "shutdown", "lifespan"}
        /\ mt_pc = "lock" /\ mt_pc' # "lock") =>
       /\ ~model_lock /\ ~model_lock'
       /\ models' = EmptyDict /\ last_used' = EmptyDict
       /\ mt_pc' = "clear_cache" <=> DOMAIN models # {}
       /\ UNCHANGED <<thVars, clVars>>
  /\ (mt_op = "unload_all" /\ mt_pc = "clear_cache" /\ outcome'.op = "unload_all"
        /\ outcome'.status = "returned") =>
       Truthy(outcome'.handle)

C13_EvictAllAtomic == [][C13_Step]_vars

\* --------------------------------------------------------------- C14
Clamp(x, lo, hi) == IF x < lo THEN lo ELSE IF x > hi THEN hi ELSE x

\* C14: for every idle timeout T > 0 the wake interval is T // 6 clamped to
\* [30, 300], so it lies in that range, and the cleanup thread wakes no
\* earlier than one interval after it began to wait; for T = 0 the interval
\* is 0 and there is no thread to use it.
C14_Interval ==
  /\ idle_timeout_s = IF MODEL_IDLE_TIMEOUT_S > 0 THEN MODEL_IDLE_TIMEOUT_S ELSE 0
  /\ idle_timeout_s > 0 =>
       /\ cleanup_interval_s =
            Clamp(idle_timeout_s \div 6, 30, 300)
       /\ cleanup_interval_s >= 30 /\ cleanup_interval_s <= 300
       /\ 6 * cleanup_interval_s <= idle_timeout_s \/ cleanup_interval_s = 30
       /\ 6 * (cleanup_interval_s + 1) > idle_timeout_s \/ cleanup_interval_s = 300
       /\ cl_pc # "none"
  /\ idle_timeout_s = 0 => cleanup_interval_s = 0 /\ cl_pc = "none"

C14_Step ==
  (cl_pc = "wait" /\ cl_pc' = "lock") =>
    /\ now >= cl_wait_start + cleanup_interval_s
    /\ cl_now' = now

C14_WakeInterval == []C14_Interval /\ [][C14_Step]_vars

\* the thread has woken after a wait of an interval that is above the lower
\* limit: T // 6 was taken as it is
C14_Witness ==
  /\ cl_pc = "lock"
  /\ cleanup_interval_s > MinCleanupInterval
  /\ cleanup_interval_s = idle_timeout_s \div IntervalDivisor
  /\ cl_now = cleanup_interval_s

\* --------------------------------------------------------------- C15
\* the cleanup thread and the loader are scheduled: a thread that can leave
\* its wait, flush, or finish its load does so, and a thread that keeps
\* finding the lock free gets it
SchedulerFairness ==
  /\ WF_vars(CleanupStopped) /\ WF_vars(TranscriptionCleanupStopped)
  /\ SF_vars(CleanupPass) /\ SF_vars(TranscriptionCleanupPass)
  /\ WF_vars(\E o \in ReleaseOutcomes : CleanupClear(o))
  /\ WF_vars(\E o \in ReleaseOutcomes : TranscriptionCleanupClear(o))
  /\ WF_vars(LoadSucceed \/ LoadFail)
  /\ WF_vars(PipelineLoadSucceed \/ PipelineLoadFail)

\* shutdown against the cleanup thread and the requests for one model
NextStop ==
  \/ GetModelCall(KeyA)
  \/ GetModelLock(KeyA)
  \/ LoadSucceed
  \/ LoadFail
  \/ UnloadAllLock
  \/ \E o \in ReleaseOutcomes : ClearDeviceCache(o)
  \/ ShutdownCall
  \/ ShutdownJoin
  \/ CleanupWake
  \/ CleanupStopped
  \/ CleanupPass
  \/ \E o \in ReleaseOutcomes : CleanupClear(o)
  \/ GetPipelineCall
  \/ GetPipelineLock
  \/ PipelineLoadSucceed
  \/ PipelineLoadFail
  \/ UnloadLock
  \/ \E o \in ReleaseOutcomes : TranscriptionClearDeviceCache(o)
  \/ TranscriptionShutdownCall
  \/ TranscriptionShutdownJoin
  \/ TranscriptionCleanupWake
  \/ TranscriptionCleanupStopped
  \/ TranscriptionCleanupPass
  \/ \E o \in ReleaseOutcomes : TranscriptionCleanupClear(o)
  \/ Tick

SpecStop == Init /\ [][NextStop]_vars /\ SchedulerFairness

\* a sleeping cleanup thread can leave its wait at once when the event is set
C15_WaitInterruptible ==
  (stop_cleanup /\ cl_pc = "wait") =>
     ENABLED (CleanupStopped \/ TranscriptionCleanupStopped)

\* no wake after the stop event is set, and the event is never cleared
C15_Step ==
  /\ stop_cleanup => ~(cl_pc = "wait" /\ cl_pc' = "lock")
  /\ stop_cleanup => stop_cleanup'
  /\ (stop_cleanup /\ cl_pc = "wait" /\ cl_pc' # "wait") => cl_pc' = "done"
  /\ (stop_cleanup /\ cl_pc = "wait") => now' = now

\* C15: once _stop_cleanup is set, the cleanup thread starts no pass whose
\* wake comes after the event, a thread sleeping in wait() leaves it at once
\* and ends its loop, and the thread eventually terminates, given that a
\* thread holding the lock eventually releases it.
C15_SchedulerStop ==
  /\ []C15_WaitInterruptible
  /\ [][C15_Step]_vars
  /\ (stop_cleanup ~> ~CleanupAlive)

\* the stop event is set while the thread is in a pass it began before
C15_Witness ==
  /\ stop_cleanup
  /\ cl_pc = "lock"
  /\ model_lock
  /\ mt_pc = "join"

\* --------------------------------------------------------------- C16
\* C16: idle timeout 60, wake interval 30.  The load of a model at t = 0
\* yields a first handle H1 (handle 1); the call at t = 30 returns H1 without
\* a load and sets the timestamp to 30; from then on a pass leaves the model
\* alone when the time it sampled is less than 60 after 30, and removes it,
\* going on to _clear_device_cache, when the sampled time is 60 or more after
\* 30; the call made after that loads again and gets a handle H2 # H1.
C16_Config == idle_timeout_s = 60 /\ cleanup_interval_s = 30 /\ cl_pc # "none"

C16_Step ==
  /\ (now = 0 /\ loading = KeyA /\ GetEnds("returned")) =>
       /\ outcome' = Returned("_get_model", KeyA, 1)
       /\ models' = Put(EmptyDict, KeyA, 1)
       /\ last_used' = Put(EmptyDict, KeyA, 0)
  /\ (now = 30 /\ TakesLock(KeyA) /\ Resident(KeyA)) =>
       /\ outcome' = Returned("_get_model", KeyA, models[KeyA])
       /\ models[KeyA] = 1
       /\ UNCHANGED <<models, loads, loading, model_lock>>
       /\ last_used' = Put(EmptyDict, KeyA, 30)
  /\ (IdlePass /\ Resident(KeyA) /\ last_used[KeyA] = 30) =>
       /\ cl_now - 30 < 60 => UNCHANGED <<models, last_used>> /\ cl_pc' = "wait"
       /\ cl_now - 30 >= 60 =>
            /\ models' = EmptyDict /\ last_used' = EmptyDict
            /\ cl_pc' = "clear_cache"
  /\ (loads = 1 /\ loading = KeyA /\ GetEnds("returned")) =>
       /\ outcome'.handle = 2
       /\ models' = Put(EmptyDict, KeyA, 2)
       /\ last_used' = Put(EmptyDict, KeyA, now)

C16_Scenario == []C16_Config /\ [][C16_Step]_vars

\* the whole scenario has run: the model used at 0 and at 30 was unloaded by
\* the wake at 90, and the request made after that has loaded it again
C16_Witness ==
  /\ outcome = Returned("_get_model", KeyA, 2)
  /\ loads = 2
  /\ now >= 90
  /\ last_used[KeyA] = now
  /\ cl_pc \in {"wait", "clear_cache"}

\* --------------------------------------------------------------- C17
\* C17: the staleness decision and the removal are one step under the lock.
\* An entry removed by a pass has, at that very step, a timestamp that is at
\* most (sampled now) - T; the pass runs with the lock free of any loader, so
\* no touch falls between decision and removal; and an entry touched at or
\* after the sample is not removed by that pass, nor is its timestamp changed.
C17_Step ==
  IdlePass =>
    /\ ~model_lock /\ loading = "-"
    /\ UNCHANGED <<thVars, model_lock, loads>>
    /\ \A k \in AllKeys :
         /\ Removes(k) =>
              Stamped(k) /\ LastUsed(k) <= cl_now - idle_timeout_s
         /\ (Resident(k) /\ LastUsed(k) >= cl_now) =>
              Resident(k)' /\ Stamped(k)' /\ LastUsed(k)' = LastUsed(k)
         /\ ~Resident(k) => ~Resident(k)'

C17_AtomicStaleRemoval == [][C17_Step]_vars

\* a pass is about to decide, with the lock free, over one entry that is
\* stale for its sample and another that was touched after the sample was
\* taken
C17_Witness ==
  /\ cl_pc = "lock"
  /\ ~model_lock
  /\ idle_timeout_s > 0
  /\ \E k, j \in DOMAIN models :
       /\ last_used[k] <= cl_now - idle_timeout_s
       /\ last_used[j] >= cl_now

\* --------------------------------------------------------------- C18
\* this step ends the load in progress, with the handle or with the failure
LoadEnds ==
  /\ loading # "-"
  /\ loading' = "-"
  /\ ~model_lock'
  /\ outcome'.key = loading
  /\ GetEnds("returned") \/ GetEnds("LoadError")

\* C18: coarse-grained load serialization.  The loader runs with the lock
\* held, so a loader is started only when none is in progress, and from the
\* start of a cold load until the step in which that load succeeds or fails
\* nothing else gets past the lock: no waiting caller (for any key, resident
\* or not) is served, the owner's unload_model / unload / unload_all stays
\* before its locked step, the idle pass stays before its locked step, and
\* the mapping and the timestamps do not change.
C18_Step ==
  /\ \A k \in AllKeys : StartsLoad(k) => loading = "-" /\ ~model_lock /\ model_lock'
  /\ loading # "-" =>
       \/ LoadEnds
       \/ /\ loading' = loading
          /\ model_lock'
          /\ CacheUnchanged
          /\ \A k \in AllKeys : ~TakesLock(k)
          /\ mt_pc = "lock" => mt_pc' = "lock"
          /\ cl_pc = "lock" => cl_pc' = "lock"

\* the lock is held exactly while a loader runs
C18_LockIsLoader == model_lock <=> loading # "-"

C18_LoadSerialization == []C18_LockIsLoader /\ [][C18_Step]_vars

\* a cold load of one key is running while a caller waits for the other,
\* resident key, the owner waits to evict and the idle pass waits for the lock
C18_Witness ==
  /\ model_lock
  /\ \E a, b \in KnownKeys :
       /\ a # b
       /\ loading = a
       /\ b \in DOMAIN models
       /\ waiting[b] > 0
  /\ mt_pc = "lock"
  /\ cl_pc = "lock"

\* --------------------------------------------------------------- C19
\* this step is the health endpoint's read of the resident keys
HealthReads == outcome'.op = "health_check"

\* this step looks up a resident entry for a caller
CacheRead == GetEnds("returned")

\* C19: every read and every write of the mapping and of the timestamps is
\* made by the thread that holds the lock.  A step that reads or writes them
\* is either the loader's own last step, made with the lock it holds, or a
\* step that finds the lock free and takes it for the access; in particular
\* the health endpoint's read of the resident keys never happens while a
\* loader holds the lock.
C19_Step ==
  (HealthReads \/ CacheRead \/ ~CacheUnchanged) => (~model_lock \/ LoadEnds)

C19_AllAccessUnderLock == [][C19_Step]_vars

\* --------------------------------------------------------------- C20
\* this step is the return of the lifespan's teardown
TeardownReturns == outcome'.op = "lifespan" /\ outcome'.status = "returned"

\* C20: application teardown runs the full shutdown protocol of every
\* manager, scheduler first and eviction second: when the lifespan's teardown
\* returns, the manager's cleanup thread is not running and none of its
\* models is resident.
C20_Step ==
  TeardownReturns => ~CleanupAlive' /\ NoneResident'

C20_TeardownShutsDown == [][C20_Step]_vars

\* ===================================================== construction
\* The constructor calls TTSManager() / TranscriptionManager(), made by
\* NumCtors threads on a machine with any combination of probes.  __new__
\* tests cls._instance, creates the object under cls._lock and returns it;
\* __init__ then tests self._initialized and runs its body, with no lock.
\* what no step of a constructor call changes
ctorFrame == <<manager, MODEL_IDLE_TIMEOUT_S, probes, now, loads, waiting, loading,
               in_call,
               mt_op, mt_pc, mt_key, cl_wait_start, cl_now, sd_join_start, sd_done>>

\* before the first constructor call
InitConstruct ==
  /\ manager \in {"tts", "asr"}
  /\ MODEL_IDLE_TIMEOUT_S \in ConfigTimeouts
  /\ probes \in Probes
  /\ idle_timeout_s = 0
  /\ cleanup_interval_s = 0
  /\ models = EmptyDict
  /\ last_used = EmptyDict
  /\ pipeline = NoPipeline
  /\ pipeline_last_used = NeverUsed
  /\ model_lock = FALSE
  /\ stop_cleanup = FALSE
  /\ now = 0
  /\ loads = 0
  /\ waiting = [k \in ModelKeys \cup {PipelineKey} |-> 0]
  /\ loading = "-"
  /\ mt_op = "-"
  /\ mt_pc = "idle"
  /\ mt_key = "-"
  /\ cl_pc = "none"
  /\ cl_wait_start = 0
  /\ cl_now = 0
  /\ sd_join_start = 0
  /\ sd_done = FALSE
  /\ outcome = NoOutcome
  /\ device = "-"
  /\ dtype = "-"
  /\ instance = 0
  /\ initialized = FALSE
  /\ ct_pc = [t \in 1..NumCtors |-> "idle"]
  /\ init_runs = 0
  /\ threads_started = 0
  /\ in_call = "off"

\* __new__: `if cls._instance is None:`, read without the lock
NewCheck(t) ==
  /\ ct_pc[t] = "idle"
  /\ ct_pc' = [ct_pc EXCEPT ![t] = IF instance = 0 THEN "new_lock" ELSE "init_check"]
  /\ outcome' = NoOutcome
  /\ UNCHANGED <<ctorFrame, idle_timeout_s, cleanup_interval_s, ttsVars, asrVars,
                 model_lock, stop_cleanup, cl_pc, device, dtype, instance,
                 initialized, init_runs, threads_started>>

\* __new__: `with cls._lock: if cls._instance is None:` create the object
\* and set _initialized = False; return cls._instance
NewLocked(t) ==
  /\ ct_pc[t] = "new_lock"
  /\ ct_pc' = [ct_pc EXCEPT ![t] = "init_check"]
  /\ IF instance = 0
       THEN instance' = 1 /\ initialized' = FALSE
       ELSE UNCHANGED <<instance, initialized>>
  /\ outcome' = NoOutcome
  /\ UNCHANGED <<ctorFrame, idle_timeout_s, cleanup_interval_s, ttsVars, asrVars,
                 model_lock, stop_cleanup, cl_pc, device, dtype, init_runs,
                 threads_started>>

\* __init__: `if self._initialized: return`
InitCheck(t) ==
  /\ ct_pc[t] = "init_check"
  /\ IF initialized
       THEN /\ ct_pc' = [ct_pc EXCEPT ![t] = "idle"]
            /\ outcome' = Returned("__init__", "-", instance)
       ELSE /\ ct_pc' = [ct_pc EXCEPT ![t] = "init_body"]
            /\ outcome' = NoOutcome
  /\ UNCHANGED <<ctorFrame, idle_timeout_s, cleanup_interval_s, ttsVars, asrVars,
                 model_lock, stop_cleanup, cl_pc, device, dtype, instance,
                 initialized, init_runs, threads_started>>

\* the body of __init__: fresh mapping, timestamps, lock and stop event, the
\* device and the timeout, the cleanup thread if the timeout is positive,
\* and `self._initialized = True` as its last statement
InitBody(t) ==
  /\ ct_pc[t] = "init_body"
  /\ ct_pc' = [ct_pc EXCEPT ![t] = "idle"]
  /\ models' = EmptyDict
  /\ last_used' = EmptyDict
  /\ pipeline' = NoPipeline
  /\ pipeline_last_used' = NeverUsed
  /\ model_lock' = FALSE
  /\ stop_cleanup' = FALSE
  /\ device' = DetectDevice(manager, probes)
  /\ dtype' = IF manager = "tts" THEN TTSDtype(device') ELSE dtype
  /\ idle_timeout_s' = IdleTimeout(MODEL_IDLE_TIMEOUT_S)
  /\ cleanup_interval_s' = CleanupInterval(idle_timeout_s')
  /\ IF ThreadStarted(idle_timeout_s')
       THEN cl_pc' = "wait" /\ threads_started' = threads_started + 1
       ELSE UNCHANGED <<cl_pc, threads_started>>
  /\ initialized' = TRUE
  /\ init_runs' = init_runs + 1
  /\ outcome' = Returned("__init__", "-", instance)
  /\ UNCHANGED <<ctorFrame, instance>>

\* _get_pipeline computes the dtype of the load from self._device
PipelineLoadDtype ==
  /\ manager = "asr"
  /\ initialized
  /\ device # "-"
  /\ dtype = "-"
  /\ dtype' = PipelineDtype(device)
  /\ outcome' = NoOutcome
  /\ UNCHANGED <<ctorFrame, idle_timeout_s, cleanup_interval_s, ttsVars, asrVars,
                 model_lock, stop_cleanup, cl_pc, device, instance, initialized,
                 ct_pc, init_runs, threads_started>>

NextConstruct ==
  \/ \E t \in 1..NumCtors : NewCheck(t)
  \/ \E t \in 1..NumCtors : NewLocked(t)
  \/ \E t \in 1..NumCtors : InitCheck(t)
  \/ \E t \in 1..NumCtors : InitBody(t)
  \/ PipelineLoadDtype

SpecConstruct == InitConstruct /\ [][NextConstruct]_vars

\* --------------------------------------------------------------- C21
\* CUDA if it is available, else MPS if it is available, else the CPU
PreferredTarget(p) ==
  IF p.cuda THEN "cuda:0" ELSE IF p.mps = "available" THEN "mps" ELSE "cpu"

\* C21: device selection.  For every combination of probes the manager's
\* device is the first available of CUDA, MPS, CPU, and it is the device the
\* other manager selects on the same machine; the precision in use is
\* float32 exactly when the device is the CPU and bfloat16 or float16 on an
\* accelerator.
C21_DeviceSelection ==
  /\ device # "-" =>
       /\ device = PreferredTarget(probes)
       /\ device = TTSDetectDevice(probes)
       /\ device = TranscriptionDetectDevice(probes)
  /\ dtype # "-" =>
       /\ dtype = "float32" <=> device = "cpu"
       /\ device # "cpu" => dtype \in {"bfloat16", "float16"}

\* --------------------------------------------------------------- C25
\* C25: singleton initialization.  Every constructor call, sequential or
\* concurrent, returns the one instance; the body of __init__ (fresh
\* mapping, timestamps, lock and stop event) runs at most once, and at most
\* one cleanup thread is started.
C25_SingletonInit ==
  /\ outcome.op = "__init__" => outcome.handle = 1
  /\ instance \in {0, 1}
  /\ init_runs <= 1
  /\ threads_started <= 1

\* --------------------------------------------------------------- C22
\* the TranscriptionManager's slot as a TTSManager mapping with the one key
\* KeyA, and its timestamp as the timestamps of that mapping
SlotModels(p) == IF p = NoPipeline THEN EmptyDict ELSE Put(EmptyDict, KeyA, p)
SlotLastUsed(lu) == IF lu = NeverUsed THEN EmptyDict ELSE Put(EmptyDict, KeyA, lu)

\* C22: the TranscriptionManager is the TTSManager restricted to one key.
\* With the slot read as a one-key mapping, every step of the
\* TranscriptionManager changes it as the TTSManager's code changes its
\* mapping and timestamps on the same event, clock and timeout: the same
\* decision to load or to touch and return, the same result of a successful
\* and of a failed load, the same removal by unload / unload_model and by
\* shutdown / unload_all, the same idle test (last_used <= now - T against
\* now - last_used >= T) and the same decision to release afterwards.
C22_Step ==
  manager = "asr" =>
    LET m == SlotModels(pipeline)
        lu == SlotLastUsed(pipeline_last_used)
        m2 == SlotModels(pipeline')
        lu2 == SlotLastUsed(pipeline_last_used')
    IN
    /\ TakesLock(PipelineKey) =>
         /\ StartsLoad(PipelineKey) <=> NeedsLoad(m, KeyA)
         /\ m2 = m
         /\ lu2 = IF NeedsLoad(m, KeyA) THEN lu ELSE TouchModel(lu, KeyA, now)
         /\ ~NeedsLoad(m, KeyA) => GetEnds("returned") /\ outcome'.handle = m[KeyA]
    /\ (LoadEnds /\ GetEnds("returned")) =>
         /\ m2 = StoreLoaded(m, KeyA, loads')
         /\ lu2 = TouchModel(lu, KeyA, now)
         /\ outcome'.handle = m2[KeyA]
    /\ (LoadEnds /\ GetEnds("LoadError")) =>
         /\ m2 = ModelsAfterFailedLoad(m, KeyA)
         /\ lu2 = LastUsedAfterFailedLoad(lu, KeyA, now)
    /\ (mt_op = "unload" /\ mt_pc = "lock" /\ mt_pc' # "lock") =>
         LET removed == UnloadModelRemoved(m, KeyA) IN
         /\ m2 = Del(m, removed)
         /\ lu2 = Del(lu, removed)
         /\ mt_pc' = "clear_cache" <=> FlushAfterUnload(removed)
    /\ (mt_op = "shutdown" /\ mt_pc = "lock" /\ mt_pc' # "lock") =>
         /\ m2 = EmptyDict
         /\ lu2 = EmptyDict
         /\ mt_pc' = "clear_cache" <=> HadModels(m)
    /\ IdlePass =>
         LET stale == UnloadIdleModelsLocked(m, lu, idle_timeout_s, cl_now) IN
         /\ m2 = Del(m, stale)
         /\ lu2 = Del(lu, stale)
         /\ cl_pc' = "clear_cache" <=> FlushAfterUnload(stale)

\* 'pipeline is not None' is 'the key is resident', with a timestamp exactly
\* when resident as long as no load is in progress
C22_Slot ==
  manager = "asr" =>
    /\ DOMAIN SlotModels(pipeline) = IF Resident(PipelineKey) THEN {KeyA} ELSE {}
    /\ ~model_lock =>
         DOMAIN SlotLastUsed(pipeline_last_used) = DOMAIN SlotModels(pipeline)

C22_SingleSlotIsKeyedCache == []C22_Slot /\ [][C22_Step]_vars

\* the idle pass of the TranscriptionManager has just removed the pipeline,
\* at now - last_used = T, and is about to release
C22_Witness ==
  /\ manager = "asr"
  /\ cl_pc = "clear_cache"
  /\ pipeline = NoPipeline
  /\ loads > 0
  /\ now = idle_timeout_s

\* --------------------------------------------------------------- C23
\* C23: a handle in use is not evicted.  From the step in which _get_model /
\* _get_pipeline returns a handle to a request until that request's
\* generate_* / transcribe call ends, no step (idle pass, unload_model,
\* unload, unload_all, shutdown) removes the key from the cache, so the key
\* is resident with the same handle for the whole call.
C23_Step ==
  \A k \in AllKeys : in_call = k => ~Removes(k)

C23_NoEvictionWhileInUse ==
  /\ [](\A k \in AllKeys : in_call = k => Resident(k))
  /\ [][C23_Step]_vars

\* --------------------------------------------------------------- C24
\* every thread is scheduled: the loader and _clear_device_cache terminate,
\* join returns, and a thread that keeps finding the lock free gets it
ProgressFairness ==
  /\ SchedulerFairness
  /\ SF_vars(GetModelLock(KeyA)) /\ SF_vars(GetPipelineLock)
  /\ SF_vars(UnloadModelLock) /\ SF_vars(UnloadAllLock) /\ SF_vars(UnloadLock)
  /\ WF_vars(\E o \in ReleaseOutcomes : ClearDeviceCache(o))
  /\ WF_vars(\E o \in ReleaseOutcomes : TranscriptionClearDeviceCache(o))
  /\ WF_vars(ShutdownJoin) /\ WF_vars(TranscriptionShutdownJoin)

\* the requests for one model against unload_model, unload_all, unload,
\* shutdown and the cleanup thread
NextProgress ==
  \/ GetModelCall(KeyA)
  \/ GetModelLock(KeyA)
  \/ LoadSucceed
  \/ LoadFail
  \/ UnloadModelCall(KeyA)
  \/ UnloadModelLock
  \/ UnloadAllCall
  \/ UnloadAllLock
  \/ \E o \in ReleaseOutcomes : ClearDeviceCache(o)
  \/ ShutdownCall
  \/ ShutdownJoin
  \/ CleanupWake
  \/ CleanupStopped
  \/ CleanupPass
  \/ \E o \in ReleaseOutcomes : CleanupClear(o)
  \/ GetPipelineCall
  \/ GetPipelineLock
  \/ PipelineLoadSucceed
  \/ PipelineLoadFail
  \/ UnloadCall
  \/ UnloadLock
  \/ \E o \in ReleaseOutcomes : TranscriptionClearDeviceCache(o)
  \/ TranscriptionShutdownCall
  \/ TranscriptionShutdownJoin
  \/ TranscriptionCleanupWake
  \/ TranscriptionCleanupStopped
  \/ TranscriptionCleanupPass
  \/ \E o \in ReleaseOutcomes : TranscriptionCleanupClear(o)
  \/ TickUpTo(ScenarioTimeout)

\* the timeout is 60 s or none, and the clock is followed up to the first
\* wake at which the pass can find an idle model
InitProgress == InitFrom({0, ScenarioTimeout}) /\ in_call = "off"

SpecProgress == InitProgress /\ [][NextProgress]_vars /\ ProgressFairness

\* the last step returned from _get_model(k) / _get_pipeline(), with the
\* handle or with the loader's exception
GotAnswer(k) ==
  /\ outcome.op \in {"_get_model", "_get_pipeline"}
  /\ outcome.key = k
  /\ outcome.status \in {"returned", "LoadError"}

\* the lock is held by a thread inside the loader only, which can end its
\* load; a thread before its locked step can take the lock when it is free
C24_NoDeadlock ==
  /\ model_lock =>
       /\ loading # "-"
       /\ ENABLED (LoadSucceed \/ LoadFail \/ PipelineLoadSucceed \/ PipelineLoadFail)
  /\ (mt_pc = "lock" /\ ~model_lock) =>
       ENABLED (UnloadModelLock \/ UnloadAllLock \/ UnloadLock)
  /\ (cl_pc = "lock" /\ ~model_lock) =>
       ENABLED (CleanupPass \/ TranscriptionCleanupPass)

\* C24: progress.  With a loader and a release hook that terminate, the lock
\* is always released again, after a successful and after a failed load; a
\* call of unload_model, unload_all, unload or shutdown returns; an idle
\* pass gets the lock and ends; and a caller waiting in _get_model /
\* _get_pipeline is answered (as long as the loader can still be invoked
\* within the bound on loads).  No state is a deadlock.
C24_Progress ==
  /\ []C24_NoDeadlock
  /\ model_lock ~> ~model_lock
  /\ (mt_pc # "idle") ~> (mt_pc = "idle")
  /\ (cl_pc = "lock") ~> (cl_pc # "lock")
  /\ (cl_pc = "clear_cache") ~> (cl_pc # "clear_cache")
  /\ \A k \in {KeyA, PipelineKey} :
       (waiting[k] > 0) ~> (GotAnswer(k) \/ loads = MaxLoads)

\* a load is running while a second caller, the owner's call and the idle
\* pass all wait for the lock
C24_Witness ==
  /\ model_lock
  /\ loading # "-"
  /\ waiting[loading] > 0
  /\ mt_pc = "lock"
  /\ cl_pc = "lock"

\* --------------------------------------------------------------- C26
\* C26: mapping and timestamps agree.  Whenever the lock is free, _models
\* and _last_used have the same keys, and the pipeline is None exactly when
\* its _last_used is None; a resident entry holds a handle the loader
\* produced and returned, with a timestamp that is not in the future; and
\* the key of a load that failed is not in the mapping.
C26_Consistent ==
  /\ ~model_lock =>
       /\ DOMAIN models = DOMAIN last_used
       /\ pipeline = NoPipeline <=> pipeline_last_used = NeverUsed
  /\ \A k \in AllKeys :
       Resident(k) =>
         /\ Handle(k) \in 1..loads
         /\ Stamped(k)
         /\ LastUsed(k) \in 0..now
  /\ outcome.status = "LoadError" => ~Resident(outcome.key)

\* the lock is free right after a failed load of one key, with the other
\* key resident and stamped
C26_Witness ==
  /\ ~model_lock
  /\ outcome.status = "LoadError"
  /\ \E k \in DOMAIN models : k # outcome.key /\ k \in DOMAIN last_used

\* --------------------------------------------------------------- C27
\* k is resident before and after this step, with the same handle and the
\* same timestamp
Untouched(k) ==
  /\ Resident(k)' /\ Stamped(k)'
  /\ Handle(k)' = Handle(k)
  /\ LastUsed(k)' = LastUsed(k)

\* C27: frame of eviction and acquire.  The locked step of unload_model(K)
\* removes at most K and leaves every other entry as it is, and an idle
\* pass leaves every entry it does not remove as it is.  A caller that
\* finds K resident changes the timestamp of K, to the current time, and
\* nothing else in the cache.  No step replaces the handle of a key that
\* stays resident, and the loader is started for K only when K is absent.
C27_Step ==
  /\ (mt_op = "unload_model" /\ mt_pc = "lock" /\ mt_pc' # "lock") =>
       \A k \in AllKeys : (Resident(k) /\ k # mt_key) => Untouched(k)
  /\ IdlePass =>
       \A k \in AllKeys : (Resident(k) /\ ~Removes(k)) => Untouched(k)
  /\ \A k \in AllKeys :
       (TakesLock(k) /\ Resident(k)) =>
         /\ Resident(k)' /\ Handle(k)' = Handle(k)
         /\ LastUsed(k)' = now
         /\ \A j \in AllKeys \ {k} : Resident(j) => Untouched(j)
         /\ \A j \in AllKeys : Resident(j)' => Resident(j)
  /\ \A k \in AllKeys :
       /\ (Resident(k) /\ Resident(k)') => Handle(k)' = Handle(k)
       /\ StartsLoad(k) => ~Resident(k)

C27_Frame == [][C27_Step]_vars

\* unload_model has removed its key and the other key is still resident
C27_Witness ==
  /\ mt_op = "unload_model"
  /\ mt_pc = "clear_cache"
  /\ mt_key \notin DOMAIN models
  /\ DOMAIN models # {}

\* ============================================================ routes
\* The three routes of main.py in front of the TTSManager: what a request
\* carries, the checks each handler makes, and the key it asks the cache for.
Routes == {"voice_design", "voice_clone", "custom_voice"}
ModelSizes == {"0.6B", "1.7B", "3B"}
Speakers == {"Vivian", "Nobody"}
\* ref_text: absent or empty, or a transcript
RefTexts == {"", "transcript"}
\* the form field x_vector_only as sent
XVectorFields == {"true", "True", "yes", "1", "false", "no"}
Requests ==
  [route : Routes, model_size : ModelSizes, speaker : Speakers,
   ref_text : RefTexts, x_vector_only : XVectorFields]

\* the speakers of VALID_SPEAKERS
VALID_SPEAKERS ==
  {"Aiden", "Dylan", "Eric", "Ono_anna", "Ryan", "Serena", "Sohee", "Uncle_fu",
   "Vivian"}

\* str.lower() on the values of the field
Lower(str) == IF str = "True" THEN "true" ELSE str

\* x_vector_only.lower() in ("true", "1", "yes")
XVectorOnlyBool(str) == Lower(str) \in {"true", "1", "yes"}

\* mutant: the size is not checked
ValidModelSize_Any(size) == TRUE

\* model_size in ("0.6B", "1.7B")
ValidModelSize(size) == size \in {"0.6B", "1.7B"}

\* the status the handler (or, for the JSON body of custom_voice, pydantic's
\* Literal["0.6B", "1.7B"]) rejects the request with; "ok" if it goes on
RouteStatus(req) ==
  CASE req.route = "voice_design" -> "ok"
    [] req.route = "voice_clone" ->
         IF ~ValidModelSize(req.model_size) THEN "400"
         ELSE IF ~XVectorOnlyBool(req.x_vector_only) /\ req.ref_text = "" THEN "400"
         ELSE "ok"
    [] req.route = "custom_voice" ->
         IF req.model_size \notin {"0.6B", "1.7B"} THEN "422"
         ELSE IF req.speaker \notin VALID_SPEAKERS THEN "400"
         ELSE IF ~ValidModelSize(req.model_size) THEN "400"
         ELSE "ok"

\* the key generate_voice_design / generate_voice_clone / generate_custom_voice
\* passes to _get_model
RouteKey(req) ==
  CASE req.route = "voice_design" -> "voice_design"
    [] req.route = "voice_clone" -> "base_" \o req.model_size
    [] req.route = "custom_voice" -> "custom_" \o req.model_size

\* a request arrives: it is rejected before the manager is called, or the
\* handler calls generate_*, which calls _get_model with the route's key
RouteRequest(req) ==
  IF RouteStatus(req) # "ok"
    THEN /\ manager = "tts"
         /\ outcome' = Raised(req.route, "-", RouteStatus(req))
         /\ UNCHANGED <<cfgVars, in_call, ttsVars, asrVars, model_lock, stop_cleanup,
                        now, loads, thVars, mtVars, clVars>>
    ELSE GetModelCall(RouteKey(req))

InitRoutes == InitFrom({0}) /\ manager = "tts" /\ in_call = "off"

NextRoutes ==
  \/ \E req \in Requests : RouteRequest(req)
  \/ \E k \in ModelKeys : GetModelLock(k)
  \/ LoadSucceed
  \/ LoadFail

SpecRoutes == InitRoutes /\ [][NextRoutes]_vars

\* --------------------------------------------------------------- C28
\* a request has just been rejected with status 400
Rejected400 == outcome'.status = "400" /\ outcome'.op \in Routes

\* C28: validation precedes acquisition.  Every key a route passes to
\* _get_model is a key of MODEL_IDS, so the ValueError for an unknown key
\* never occurs, and only keys of MODEL_IDS are waited for, loaded or stored;
\* a request rejected with 400 does not enter _get_model: no caller is added,
\* no load is started and the mapping and the timestamps stay as they are.
C28_Step ==
  Rejected400 =>
    /\ UNCHANGED <<ttsVars, thVars, model_lock, loads>>
    /\ \A k \in ModelKeys : ~TakesLock(k) /\ ~StartsLoad(k)

C28_KeysValid ==
  /\ outcome.status # "ValueError"
  /\ loading # "-" => IsModelId(loading)
  /\ \A k \in DOMAIN models : IsModelId(k)
  /\ \A k \in DOMAIN last_used : IsModelId(k)

C28_ValidationFirst == []C28_KeysValid /\ [][C28_Step]_vars

\* a request has been rejected with 400 while models are loaded and another
\* request waits for the lock
C28_Witness ==
  /\ outcome.status = "400"
  /\ DOMAIN models # {}
  /\ \E k \in ModelKeys : waiting[k] > 0
====
